---- MODULE Spec2Model ----
(***************************************************************************)
(* Node configuration of the LoWAPP simulation                             *)
(* (src/simulation/src/system/configuration.c): the configuration record   *)
(* myConfig with get_config / set_config / parse_line, and the resolution  *)
(* of the configuration file path by node_init / get_uuid.                 *)
(*                                                                         *)
(* C strings are sequences of one-character strings; a NULL pointer is the *)
(* value NULL, which is no C string.  Each action is one whole call.  The  *)
(* variables op .. uninitUsed record the last call: its arguments, what it *)
(* returned and what it did on the way.                                    *)
(***************************************************************************)
EXTENDS Integers, Sequences, FiniteSets, TLC

VARIABLES
    myConfig,     \* ConfigNode_t myConfig: the seven fields
    configFile,   \* char configFile[]: the text held in the buffer
    hexUpper,     \* the letter case the hex encoder emits (a build convention)
    aborted,      \* the process was killed by a fault (no call returns any more)
    op,           \* last call: "none", "get_config", "set_config", "parse_line",
                  \*            "node_init", "get_uuid"
    returned,     \* last call returned to its caller
    ret,          \* last call's return code
    key,          \* key handed to get_config / set_config (NULL: none)
    val,          \* value handed to set_config (NULL: a null pointer or none)
    line,         \* line handed to parse_line
    value,        \* get_config's output buffer
    changed,      \* last call changed some field of myConfig
    setCalled,    \* last parse_line called set_config
    args,         \* struct arguments handed to node_init
    fs,           \* files that existed during the last node_init
    argc,         \* get_uuid's argc
    argv1,        \* get_uuid's argv[1]
    queried,      \* paths node_init handed to file_exists, in order
    logged,       \* LOG(LOG_FATAL, ...) of the last node_init
    written,      \* most bytes a single copy left in configFile, NUL included
    uninitUsed    \* last call read a variable it never assigned

vars == <<myConfig, configFile, hexUpper, aborted, op, returned, ret, key,
          val, line, value, changed, setCalled, args, fs, argc, argv1,
          queried, logged, written, uninitUsed>>

cfgVars == <<myConfig, hexUpper>>
nodeCallVars == <<args, fs, argc, argv1, queried, logged, written, uninitUsed>>

(***************************************************************************)
(* Bounds and constants                                                    *)
(***************************************************************************)

\* An undefined nibble or decimal digit is drawn from 0..MaxUndef.
MaxUndef == 1

\* memset(configFile, 0, 100): the size of the configFile buffer.
ConfigFileSize == 100

NULL == <<"NULL">>
NUL == ""
Delim == ":"

UndefDigit == 0..MaxUndef

(***************************************************************************)
(* Key literals (extern const uint8_t str...[])                            *)
(***************************************************************************)
\* "deviceId"
strDeviceId == <<"d", "e", "v", "i", "c", "e", "I", "d">>
\* "groupId"
strGroupId == <<"g", "r", "o", "u", "p", "I", "d">>
\* "gwMask"
strGwMask == <<"g", "w", "M", "a", "s", "k">>
\* "encKey"
strEncKey == <<"e", "n", "c", "K", "e", "y">>
\* "rchanId"
strRchanId == <<"r", "c", "h", "a", "n", "I", "d">>
\* "rsf"
strRsf == <<"r", "s", "f">>
\* "preambleTime"
strPreambleTime == <<"p", "r", "e", "a", "m", "b", "l", "e", "T", "i", "m", "e">>

RecognizedKeys ==
    {strDeviceId, strGroupId, strGwMask, strRchanId, strRsf, strPreambleTime,
     strEncKey}

\* strcmp(a, b) of two C strings: 0 exactly when they are the same text.
strcmp(a, b) == IF a = b THEN 0 ELSE 1

(***************************************************************************)
(* Codec (lowapp_utils_conversion.h)                                       *)
(***************************************************************************)
\* "0123456789ABCDEF"
HexUpperDigits == <<"0", "1", "2", "3", "4", "5", "6", "7", "8", "9", "A", "B", "C", "D", "E", "F">>
\* "0123456789abcdef"
HexLowerDigits == <<"0", "1", "2", "3", "4", "5", "6", "7", "8", "9", "a", "b", "c", "d", "e", "f">>
\* "0123456789"
DecDigits == <<"0", "1", "2", "3", "4", "5", "6", "7", "8", "9">>

IsHexChar(c) == \E i \in 1..16 : HexUpperDigits[i] = c \/ HexLowerDigits[i] = c
HexCharValue(c) ==
    (CHOOSE i \in 1..16 : HexUpperDigits[i] = c \/ HexLowerDigits[i] = c) - 1
IsDecChar(c) == \E i \in 1..10 : DecDigits[i] = c
DecCharValue(c) == (CHOOSE i \in 1..10 : DecDigits[i] = c) - 1

\* s[i] of a C string, i from 0; the terminator and what follows it are no digits.
CharAt(s, i) == IF i < Len(s) THEN s[i + 1] ELSE NUL

\* The value a character contributes as a hex digit; undefined for a non-digit.
Nibbles(c) == IF IsHexChar(c) THEN {HexCharValue(c)} ELSE UndefDigit

\* Two characters of s from offset off into one byte.  With a character that is
\* no hex digit the byte is undefined or left as it was (old).
AsciiHexConversionOneValueBI8_t(old, s, off) ==
    {16 * h + l : h \in Nibbles(CharAt(s, off)), l \in Nibbles(CharAt(s, off + 1))}
    \cup (IF IsHexChar(CharAt(s, off)) /\ IsHexChar(CharAt(s, off + 1))
          THEN {} ELSE {old})

\* The first n characters of s into n/2 bytes, first character first;
\* characters past n are not read.  old: the bytes held before.
RECURSIVE AsciiHexStringConversionBI8_t(_, _, _)
AsciiHexStringConversionBI8_t(old, s, n) ==
    IF n = 0 THEN {<<>>}
    ELSE {Append(p, b) :
            p \in AsciiHexStringConversionBI8_t(old, s, n - 2),
            b \in AsciiHexConversionOneValueBI8_t(old[n \div 2], s, n - 2)}

\* A decimal text of len characters into an unsigned integer.
RECURSIVE AsciiDecStringConversion_t(_, _)
AsciiDecStringConversion_t(s, len) ==
    IF len = 0 THEN {0}
    ELSE {10 * a + d :
            a \in AsciiDecStringConversion_t(s, len - 1),
            d \in (IF IsDecChar(s[len]) THEN {DecCharValue(s[len])} ELSE UndefDigit)}

\* size bytes as 2 * size hex characters, first byte first, high nibble first.
FillBufferHexBI8_t(data, size, upper) ==
    LET digits == IF upper THEN HexUpperDigits ELSE HexLowerDigits
    IN  [i \in 1..(2 * size) |->
            digits[(IF i % 2 = 1 THEN data[(i + 1) \div 2] \div 16
                                 ELSE data[i \div 2] % 16) + 1]]

\* One 16-bit word as decimal text.
RECURSIVE FillBuffer16_t(_)
FillBuffer16_t(n) ==
    IF n < 10 THEN <<DecDigits[n + 1]>>
    ELSE Append(FillBuffer16_t(n \div 10), DecDigits[(n % 10) + 1])

\* What the FillBuffer functions return: the characters written.
FillRet(text) == Len(text)

\* Storing into the uint16_t field keeps the low 16 bits.
U16(n) == n % 65536

ZeroBytes(n) == [i \in 1..n |-> 0]

(***************************************************************************)
(* ConfigStore: get_config, set_config                                     *)
(***************************************************************************)

\* One result of a call on the record: the record after it, and what the call
\* returned unless the process faulted in it.
Outcome(cfg, r) == [cfg |-> cfg, ret |-> r, returned |-> TRUE]
Fault(cfg) == [cfg |-> cfg, ret |-> 0, returned |-> FALSE]

\* Reading through a null val: the process faults, or the read yields
\* undefined bytes and the call goes on.
NullRead(cfg, f, new) ==
    {Fault(cfg)} \cup
    {Outcome([cfg EXCEPT ![f] = n], 0) : n \in new}

HexStore(cfg, f, v, n) ==
    IF v = NULL
    THEN NullRead(cfg, f, {[i \in 1..(n \div 2) |-> 16 * d + d] : d \in UndefDigit})
    ELSE {Outcome([cfg EXCEPT ![f] = b], 0) :
            b \in AsciiHexStringConversionBI8_t(cfg[f], v, n)}

OneStore(cfg, f, v) ==
    IF v = NULL
    THEN NullRead(cfg, f, {<<16 * d + d>> : d \in UndefDigit})
    ELSE {Outcome([cfg EXCEPT ![f] = <<b>>], 0) :
            b \in AsciiHexConversionOneValueBI8_t(cfg[f][1], v, 0)}

DecStore(cfg, v) ==
    IF v = NULL
    THEN NullRead(cfg, "preambleTime", UndefDigit)
    ELSE {Outcome([cfg EXCEPT !.preambleTime = U16(n)], 0) :
            n \in AsciiDecStringConversion_t(v, Len(v))}

\* strncmp(a, b, n): 0 when the first n characters agree.
strncmp(a, b, n) ==
    IF SubSeq(a, 1, IF n < Len(a) THEN n ELSE Len(a))
       = SubSeq(b, 1, IF n < Len(b) THEN n ELSE Len(b)) THEN 0 ELSE 1

\* set_config comparing only as many characters of the key as deviceId has.
set_config_prefixCmp(cfg, k, v) ==
    IF strcmp(k, strGwMask) = 0 THEN HexStore(cfg, "gwMask", v, 8)
    ELSE IF strncmp(k, strDeviceId, Len(strDeviceId)) = 0
        THEN HexStore(cfg, "deviceId", v, 2)
    ELSE IF strcmp(k, strGroupId) = 0 THEN HexStore(cfg, "groupId", v, 4)
    ELSE IF strcmp(k, strRchanId) = 0 THEN OneStore(cfg, "rchanId", v)
    ELSE IF strcmp(k, strRsf) = 0 THEN OneStore(cfg, "rsf", v)
    ELSE IF strcmp(k, strPreambleTime) = 0 THEN DecStore(cfg, v)
    ELSE IF strcmp(k, strEncKey) = 0 THEN HexStore(cfg, "encKey", v, 32)
    ELSE {Outcome(cfg, -1)}

\* set_config(key, val): the results of the call on record cfg.
set_config(cfg, k, v) ==
    IF strcmp(k, strGwMask) = 0 THEN HexStore(cfg, "gwMask", v, 8)
    ELSE IF strcmp(k, strDeviceId) = 0 THEN HexStore(cfg, "deviceId", v, 2)
    ELSE IF strcmp(k, strGroupId) = 0 THEN HexStore(cfg, "groupId", v, 4)
    ELSE IF strcmp(k, strRchanId) = 0 THEN OneStore(cfg, "rchanId", v)
    ELSE IF strcmp(k, strRsf) = 0 THEN OneStore(cfg, "rsf", v)
    ELSE IF strcmp(k, strPreambleTime) = 0 THEN DecStore(cfg, v)
    ELSE IF strcmp(k, strEncKey) = 0 THEN HexStore(cfg, "encKey", v, 32)
    ELSE {Outcome(cfg, -1)}

Filled(text) == [ret |-> FillRet(text), wrote |-> TRUE, text |-> text]

\* get_config encoding groupId with the width of a one-byte field.
get_config_groupIdOneByte(cfg, k, upper) ==
    IF strcmp(k, strGwMask) = 0 THEN Filled(FillBufferHexBI8_t(cfg.gwMask, 4, upper))
    ELSE IF strcmp(k, strDeviceId) = 0
        THEN Filled(FillBufferHexBI8_t(cfg.deviceId, 1, upper))
    ELSE IF strcmp(k, strGroupId) = 0
        THEN Filled(FillBufferHexBI8_t(cfg.groupId, 1, upper))
    ELSE IF strcmp(k, strRchanId) = 0
        THEN Filled(FillBufferHexBI8_t(cfg.rchanId, 1, upper))
    ELSE IF strcmp(k, strRsf) = 0 THEN Filled(FillBufferHexBI8_t(cfg.rsf, 1, upper))
    ELSE IF strcmp(k, strPreambleTime) = 0 THEN Filled(FillBuffer16_t(cfg.preambleTime))
    ELSE IF strcmp(k, strEncKey) = 0
        THEN Filled(FillBufferHexBI8_t(cfg.encKey, 16, upper))
    ELSE [ret |-> -1, wrote |-> FALSE, text |-> <<>>]

\* get_config(key, value): the return code and the text written to value.
get_config(cfg, k, upper) ==
    IF strcmp(k, strGwMask) = 0 THEN Filled(FillBufferHexBI8_t(cfg.gwMask, 4, upper))
    ELSE IF strcmp(k, strDeviceId) = 0
        THEN Filled(FillBufferHexBI8_t(cfg.deviceId, 1, upper))
    ELSE IF strcmp(k, strGroupId) = 0
        THEN Filled(FillBufferHexBI8_t(cfg.groupId, 2, upper))
    ELSE IF strcmp(k, strRchanId) = 0
        THEN Filled(FillBufferHexBI8_t(cfg.rchanId, 1, upper))
    ELSE IF strcmp(k, strRsf) = 0 THEN Filled(FillBufferHexBI8_t(cfg.rsf, 1, upper))
    ELSE IF strcmp(k, strPreambleTime) = 0 THEN Filled(FillBuffer16_t(cfg.preambleTime))
    ELSE IF strcmp(k, strEncKey) = 0
        THEN Filled(FillBufferHexBI8_t(cfg.encKey, 16, upper))
    ELSE [ret |-> -1, wrote |-> FALSE, text |-> <<>>]

(***************************************************************************)
(* parse_line                                                              *)
(***************************************************************************)
RECURSIVE SkipDelims(_)
SkipDelims(s) == IF s # <<>> /\ Head(s) = Delim THEN SkipDelims(Tail(s)) ELSE s

RECURSIVE TokenLen(_)
TokenLen(s) == IF s = <<>> \/ Head(s) = Delim THEN 0 ELSE 1 + TokenLen(Tail(s))

\* strtok(s, ":"): the next token of s and the text left after its delimiter;
\* tok is NULL when s holds nothing but delimiters.
strtok(s) ==
    LET t == SkipDelims(s)
        n == TokenLen(t)
    IN  IF t = <<>> THEN [tok |-> NULL, rest |-> <<>>]
        ELSE [tok |-> SubSeq(t, 1, n), rest |-> SubSeq(t, n + 2, Len(t))]

\* parse_line(line): the key and value handed to set_config (called: whether
\* it was called at all) and the results of the call.
parse_line(cfg, l) ==
    LET k == strtok(l)
        v == strtok(k.rest)
    IN  IF k.tok # NULL
        THEN [called |-> TRUE, key |-> k.tok, val |-> v.tok,
              outcomes |-> set_config(cfg, k.tok, v.tok)]
        ELSE [called |-> FALSE, key |-> NULL, val |-> NULL,
              outcomes |-> {Outcome(cfg, -1)}]

(***************************************************************************)
(* Inputs of the configuration calls                                       *)
(***************************************************************************)
\* "deviceid"
key_deviceid == <<"d", "e", "v", "i", "c", "e", "i", "d">>
\* "device"
key_device == <<"d", "e", "v", "i", "c", "e">>
\* "deviceIdX"
key_deviceIdX == <<"d", "e", "v", "i", "c", "e", "I", "d", "X">>
UnknownKeys == {<<>>, key_deviceid, key_device, key_deviceIdX}
KeyInputs == RecognizedKeys \cup UnknownKeys

\* "AB"
v_AB == <<"A", "B">>
\* "ab"
v_ab == <<"a", "b">>
\* "AB:extra"
v_AB_extra == <<"A", "B", ":", "e", "x", "t", "r", "a">>
\* "BEEF"
v_BEEF == <<"B", "E", "E", "F">>
\* "beef"
v_beef == <<"b", "e", "e", "f">>
\* "DEADBEEF"
v_DEADBEEF == <<"D", "E", "A", "D", "B", "E", "E", "F">>
\* "deadbeef"
v_deadbeef == <<"d", "e", "a", "d", "b", "e", "e", "f">>
\* "0A"
v_0A == <<"0", "A">>
\* "0a"
v_0a == <<"0", "a">>
\* "0C"
v_0C == <<"0", "C">>
\* "0c"
v_0c == <<"0", "c">>
\* "0G"
v_0G == <<"0", "G">>
\* "0"
v_0 == <<"0">>
\* "65535"
v_65535 == <<"6", "5", "5", "3", "5">>
\* "65536"
v_65536 == <<"6", "5", "5", "3", "6">>
\* "1a"
v_1a == <<"1", "a">>
\* "000102030405060708090A0B0C0D0E0F"
encKeyUpper == <<"0", "0", "0", "1", "0", "2", "0", "3", "0", "4", "0", "5", "0", "6", "0", "7",
    "0", "8", "0", "9", "0", "A", "0", "B", "0", "C", "0", "D", "0", "E", "0", "F">>
\* "a0a1a2a3a4a5a6a7a8a9aaabacadaeaf"
encKeyLower == <<"a", "0", "a", "1", "a", "2", "a", "3", "a", "4", "a", "5", "a", "6", "a", "7",
    "a", "8", "a", "9", "a", "a", "a", "b", "a", "c", "a", "d", "a", "e", "a", "f">>

\* The values tried for key k: canonical texts in either letter case, text past
\* the field's width, a non-hex and a non-decimal character, a value past 16
\* bits and the empty text.
ValInputs(k) ==
    IF k = strDeviceId THEN {v_AB, v_ab, v_AB_extra}
    ELSE IF k = strGroupId THEN {v_BEEF, v_beef}
    ELSE IF k = strGwMask THEN {v_DEADBEEF, v_deadbeef}
    ELSE IF k = strRchanId THEN {v_0A, v_0a}
    ELSE IF k = strRsf THEN {v_0C, v_0c, v_0G}
    ELSE IF k = strPreambleTime THEN {v_0, v_65535, v_65536, v_1a, <<>>}
    ELSE IF k = strEncKey THEN {encKeyUpper, encKeyLower}
    ELSE {v_AB}

\* "deviceId:AB"
l_deviceId_AB == <<"d", "e", "v", "i", "c", "e", "I", "d", ":", "A", "B">>
\* "deviceId:AB:extra"
l_deviceId_AB_extra == <<"d", "e", "v", "i", "c", "e", "I", "d", ":", "A", "B", ":", "e", "x",
    "t", "r", "a">>
\* "nocolonhere"
l_nocolonhere == <<"n", "o", "c", "o", "l", "o", "n", "h", "e", "r", "e">>
\* "deviceId:"
l_deviceId_colon == <<"d", "e", "v", "i", "c", "e", "I", "d", ":">>
\* ":"
l_colon == <<":">>
\* ":deviceId:0F"
l_colon_deviceId_0F == <<":", "d", "e", "v", "i", "c", "e", "I", "d", ":", "0", "F">>
\* "rsf:0c"
l_rsf_0c == <<"r", "s", "f", ":", "0", "c">>
\* "foo:12"
l_foo_12 == <<"f", "o", "o", ":", "1", "2">>
\* "preambleTime:1000"
l_preambleTime_1000 == <<"p", "r", "e", "a", "m", "b", "l", "e", "T", "i", "m", "e", ":", "1",
    "0", "0", "0">>

LineInputs ==
    {l_deviceId_AB, l_deviceId_AB_extra, l_nocolonhere, <<>>, strDeviceId,
     l_deviceId_colon, l_colon, l_colon_deviceId_0F, l_rsf_0c, l_foo_12,
     l_preambleTime_1000}

(***************************************************************************)
(* Initial state                                                           *)
(***************************************************************************)
NoArgs == [config |-> NULL, uuid |-> NULL, directory |-> NULL]

Init ==
    /\ myConfig = [deviceId |-> ZeroBytes(1), groupId |-> ZeroBytes(2),
                   gwMask |-> ZeroBytes(4), rchanId |-> ZeroBytes(1),
                   rsf |-> ZeroBytes(1), preambleTime |-> 0,
                   encKey |-> ZeroBytes(16)]
    /\ configFile = <<>>
    /\ hexUpper \in BOOLEAN
    /\ aborted = FALSE
    /\ op = "none"
    /\ returned = TRUE
    /\ ret = 0
    /\ key = NULL
    /\ val = NULL
    /\ line = <<>>
    /\ value = <<>>
    /\ changed = FALSE
    /\ setCalled = FALSE
    /\ args = NoArgs
    /\ fs = {}
    /\ argc = 1
    /\ argv1 = NULL
    /\ queried = <<>>
    /\ logged = "none"
    /\ written = 0
    /\ uninitUsed = FALSE

(***************************************************************************)
(* Calls on the configuration record                                       *)
(***************************************************************************)

\* The effect of one result o of a call on the record.
Applied(o) ==
    /\ myConfig' = o.cfg
    /\ changed' = (o.cfg # myConfig)
    /\ returned' = o.returned
    /\ ret' = o.ret
    /\ aborted' = ~o.returned

SetConfig ==
    /\ ~aborted
    /\ \E k \in KeyInputs : \E v \in ValInputs(k) :
        \E o \in set_config(myConfig, k, v) :
            /\ Applied(o)
            /\ op' = "set_config"
            /\ key' = k
            /\ val' = v
    /\ line' = <<>>
    /\ value' = <<>>
    /\ setCalled' = FALSE
    /\ UNCHANGED <<configFile, hexUpper>>
    /\ UNCHANGED nodeCallVars

GetConfig ==
    /\ ~aborted
    /\ \E k \in KeyInputs :
        LET g == get_config(myConfig, k, hexUpper)
        IN  /\ op' = "get_config"
            /\ key' = k
            /\ ret' = g.ret
            /\ value' = IF g.wrote THEN g.text ELSE <<>>
    /\ returned' = TRUE
    /\ changed' = FALSE
    /\ val' = NULL
    /\ line' = <<>>
    /\ setCalled' = FALSE
    /\ UNCHANGED <<myConfig, configFile, hexUpper, aborted>>
    /\ UNCHANGED nodeCallVars

ParseLine ==
    /\ ~aborted
    /\ \E l \in LineInputs :
        LET p == parse_line(myConfig, l)
        IN  \E o \in p.outcomes :
                /\ Applied(o)
                /\ op' = "parse_line"
                /\ line' = l
                /\ key' = p.key
                /\ val' = p.val
                /\ setCalled' = p.called
    /\ value' = <<>>
    /\ UNCHANGED <<configFile, hexUpper>>
    /\ UNCHANGED nodeCallVars

\* The record under direct calls of set_config and get_config.
ConfigNext == SetConfig \/ GetConfig

SpecConfig == Init /\ [][ConfigNext]_vars

\* The record loaded line by line from a configuration file, and read back.
ParseNext == ParseLine \/ GetConfig

SpecParse == Init /\ [][ParseNext]_vars

(***************************************************************************)
(* IdentityResolver: node_init, get_uuid                                   *)
(***************************************************************************)

\* char nodeSubdir[], and the "Nodes/" of get_uuid's format string.
\* "Nodes/"
nodeSubdir == <<"N", "o", "d", "e", "s", "/">>
\* "Nodes/"
NodesPrefix == <<"N", "o", "d", "e", "s", "/">>

\* uuid_parse(s, uuid): 0 for the 36-character form 8-4-4-4-12 of hex digits.
uuid_parse(s) ==
    IF /\ Len(s) = 36
       /\ \A i \in 1..36 :
            IF i \in {9, 14, 19, 24} THEN s[i] = "-" ELSE IsHexChar(s[i])
    THEN 0 ELSE -1

file_exists(path, files) == path \in files

\* A text and its terminator fit in configFile.
Fits(s) == Len(s) + 1 <= ConfigFileSize

NodeRet(r, cf, q, lg) ==
    [ret |-> r, returned |-> TRUE, configFile |-> cf, queried |-> q,
     logged |-> lg, written |-> Len(cf) + 1]
NodeFault(cf, q) ==
    [ret |-> 0, returned |-> FALSE, configFile |-> cf, queried |-> q,
     logged |-> "none", written |-> Len(cf) + 1]

\* strcpy / strcat leaving text s in configFile, then the results rest of what
\* follows.  A copy past the end of the buffer is undefined: the process is
\* killed there, or it goes on with the text as copied.
Copied(s, q, rest) == (IF Fits(s) THEN {} ELSE {NodeFault(s, q)}) \cup rest

\* node_init taking either of uuid and directory for the pair of them.
node_init_eitherArg(a, files) ==
    IF a.config # NULL
    THEN IF file_exists(a.config, files)
         THEN Copied(a.config, <<a.config>>, {NodeRet(0, a.config, <<a.config>>, "none")})
         ELSE IF a.directory # NULL
              THEN LET p == a.directory \o a.config
                       q == <<a.config, p>>
                   IN  Copied(a.directory, <<a.config>>,
                         Copied(p, <<a.config>>,
                           {IF file_exists(p, files)
                            THEN NodeRet(0, p, q, "none")
                            ELSE NodeRet(-1, p, q, "does not exists")}))
              ELSE {NodeRet(-1, <<>>, <<a.config>>, "does not exists")}
    ELSE IF a.uuid # NULL \/ a.directory # NULL
    THEN IF uuid_parse(a.uuid) # 0
         THEN {NodeRet(-1, <<>>, <<>>, "UUID not valid")}
         ELSE LET p1 == a.directory \o nodeSubdir
                  p == p1 \o a.uuid
              IN  Copied(a.directory, <<>>,
                    Copied(p1, <<>>,
                      Copied(p, <<>>,
                        {IF file_exists(p, files)
                         THEN NodeRet(0, p, <<p>>, "none")
                         ELSE NodeRet(-1, p, <<p>>, "does not exists")})))
    ELSE {NodeRet(-1, <<>>, <<>>, "not enough parameters")}

\* node_init(args) with the files that exist: the results of the call.
\* memset leaves configFile empty; every LOG is a LOG_FATAL.
node_init(a, files) ==
    IF a.config # NULL
    THEN IF file_exists(a.config, files)
         THEN Copied(a.config, <<a.config>>, {NodeRet(0, a.config, <<a.config>>, "none")})
         ELSE IF a.directory # NULL
              THEN LET p == a.directory \o a.config
                       q == <<a.config, p>>
                   IN  Copied(a.directory, <<a.config>>,
                         Copied(p, <<a.config>>,
                           {IF file_exists(p, files)
                            THEN NodeRet(0, p, q, "none")
                            ELSE NodeRet(-1, p, q, "does not exists")}))
              ELSE {NodeRet(-1, <<>>, <<a.config>>, "does not exists")}
    ELSE IF a.uuid # NULL /\ a.directory # NULL
    THEN IF uuid_parse(a.uuid) # 0
         THEN {NodeRet(-1, <<>>, <<>>, "UUID not valid")}
         ELSE LET p1 == a.directory \o nodeSubdir
                  p == p1 \o a.uuid
              IN  Copied(a.directory, <<>>,
                    Copied(p1, <<>>,
                      Copied(p, <<>>,
                        {IF file_exists(p, files)
                         THEN NodeRet(0, p, <<p>>, "none")
                         ELSE NodeRet(-1, p, <<p>>, "does not exists")})))
    ELSE {NodeRet(-1, <<>>, <<>>, "not enough parameters")}

\* What a variable that was never assigned may hold.
UninitRet == {-128, -1, 0, 1, 127}
\* "junk"
junk == <<"j", "u", "n", "k">>
\* "00000000-0000-0000-0000-000000000000"
nilUuid == <<"0", "0", "0", "0", "0", "0", "0", "0", "-", "0", "0", "0", "0", "-", "0", "0", "0",
    "0", "-", "0", "0", "0", "0", "-", "0", "0", "0", "0", "0", "0", "0", "0", "0", "0", "0", "0">>
UninitStr == {<<>>, junk, nilUuid}

\* uuid_generate + uuid_unparse: a fresh canonical UUID text.
\* "1b4e28ba-2fa1-11d2-883f-0016d3cca427"
uuidA == <<"1", "b", "4", "e", "2", "8", "b", "a", "-", "2", "f", "a", "1", "-", "1", "1", "d",
    "2", "-", "8", "8", "3", "f", "-", "0", "0", "1", "6", "d", "3", "c", "c", "a", "4", "2", "7">>
\* "6fa459ea-ee8a-3ca4-894e-db77e160355e"
uuidB == <<"6", "f", "a", "4", "5", "9", "e", "a", "-", "e", "e", "8", "a", "-", "3", "c", "a",
    "4", "-", "8", "9", "4", "e", "-", "d", "b", "7", "7", "e", "1", "6", "0", "3", "5", "5", "e">>
GeneratedUuids == {uuidA, uuidB}

UuidRet(r, s, u) ==
    [ret |-> r, configFile |-> NodesPrefix \o s, uninit |-> u,
     written |-> Len(NodesPrefix \o s) + 1]

\* get_uuid(argc, argv): with argc == 2 neither ret nor uuid_str is assigned
\* before sprintf and return read them.
get_uuid(c, a1) ==
    IF c = 2
    THEN {UuidRet(r, s, TRUE) : r \in UninitRet, s \in UninitStr}
    ELSE {UuidRet(0, s, FALSE) : s \in GeneratedUuids}

(***************************************************************************)
(* Inputs of the path resolution                                           *)
(***************************************************************************)
\* "cfg.txt"
cfgTxt == <<"c", "f", "g", ".", "t", "x", "t">>
\* "Nodes/"
dirNodes == <<"N", "o", "d", "e", "s", "/">>
\* "1B4E28BA-2fa1-11d2-883f-0016d3cca427"
goodUuid == <<"1", "B", "4", "E", "2", "8", "B", "A", "-", "2", "f", "a", "1", "-", "1", "1",
    "d", "2", "-", "8", "8", "3", "f", "-", "0", "0", "1", "6", "d", "3", "c", "c", "a", "4",
    "2", "7">>
\* "not-a-uuid"
notAUuid == <<"n", "o", "t", "-", "a", "-", "u", "u", "i", "d">>
\* The shortest text that does not fit in configFile.
LongName == [i \in 1..ConfigFileSize |-> "x"]

ConfigInputs == {NULL, cfgTxt, LongName}
UuidInputs == {NULL, goodUuid, notAUuid}
DirectoryInputs == {NULL, dirNodes, LongName}

FileUniverse ==
    {cfgTxt, dirNodes \o cfgTxt, dirNodes \o nodeSubdir \o goodUuid,
     dirNodes \o nodeSubdir \o notAUuid, LongName}

ArgcInputs == {1, 2, 3}

(***************************************************************************)
(* Calls of the path resolution                                            *)
(***************************************************************************)
NodeInit ==
    /\ ~aborted
    /\ \E c \in ConfigInputs, u \in UuidInputs, d \in DirectoryInputs :
       \E files \in SUBSET FileUniverse :
        LET a == [config |-> c, uuid |-> u, directory |-> d]
        IN  \E o \in node_init(a, files) :
                /\ args' = a
                /\ fs' = files
                /\ configFile' = o.configFile
                /\ returned' = o.returned
                /\ aborted' = ~o.returned
                /\ ret' = o.ret
                /\ queried' = o.queried
                /\ logged' = o.logged
                /\ written' = o.written
    /\ op' = "node_init"
    /\ argc' = 1
    /\ argv1' = NULL
    /\ uninitUsed' = FALSE
    /\ changed' = FALSE
    /\ key' = NULL
    /\ val' = NULL
    /\ line' = <<>>
    /\ value' = <<>>
    /\ setCalled' = FALSE
    /\ UNCHANGED cfgVars

GetUuid ==
    /\ ~aborted
    /\ \E c \in ArgcInputs :
       \E a1 \in (IF c = 1 THEN {NULL} ELSE {goodUuid, notAUuid}) :
       \E o \in get_uuid(c, a1) :
            /\ argc' = c
            /\ argv1' = a1
            /\ ret' = o.ret
            /\ configFile' = o.configFile
            /\ uninitUsed' = o.uninit
            /\ written' = o.written
    /\ op' = "get_uuid"
    /\ returned' = TRUE
    /\ args' = NoArgs
    /\ fs' = {}
    /\ queried' = <<>>
    /\ logged' = "none"
    /\ changed' = FALSE
    /\ key' = NULL
    /\ val' = NULL
    /\ line' = <<>>
    /\ value' = <<>>
    /\ setCalled' = FALSE
    /\ UNCHANGED <<aborted>>
    /\ UNCHANGED cfgVars

\* The resolution of the configuration file at process start.
NodeNext == NodeInit \/ GetUuid

SpecNode == Init /\ [][NodeNext]_vars

\* The whole program: any call in any order.
Next == SetConfig \/ GetConfig \/ ParseLine \/ NodeInit \/ GetUuid

Spec == Init /\ [][Next]_vars

(***************************************************************************)
(* Properties                                                              *)
(***************************************************************************)

\* Characters a field's text has: 2 per byte of a hex field.
HexWidth(k) ==
    IF k = strGroupId THEN 4
    ELSE IF k = strGwMask THEN 8
    ELSE IF k = strEncKey THEN 32
    ELSE 2

AllDecimal(v) == \A i \in 1..Len(v) : IsDecChar(v[i])
DecimalValue(v) == CHOOSE n \in AsciiDecStringConversion_t(v, Len(v)) : TRUE

\* v is the canonical text of field k: exact width in the encoder's letter case,
\* or decimal without leading zeros in 0..65535.
Canonical(k, v) ==
    IF k = strPreambleTime
    THEN /\ Len(v) >= 1
         /\ AllDecimal(v)
         /\ (Len(v) = 1 \/ v[1] # "0")
         /\ DecimalValue(v) <= 65535
    ELSE /\ Len(v) = HexWidth(k)
         /\ \A i \in 1..Len(v) : \E j \in 1..16 :
                v[i] = (IF hexUpper THEN HexUpperDigits ELSE HexLowerDigits)[j]

\* v is no valid text of field k: a non-hex character within the field's
\* width, non-decimal text, or a decimal value that does not fit 16 bits.
InvalidEncoding(k, v) ==
    IF k = strPreambleTime
    THEN ~AllDecimal(v) \/ DecimalValue(v) > 65535
    ELSE \E i \in 0..(HexWidth(k) - 1) : ~IsHexChar(CharAt(v, i))

NoDelim(l) == \A i \in 1..Len(l) : l[i] # Delim

IsNodesPath(p) ==
    /\ Len(p) = 42
    /\ SubSeq(p, 1, 6) = NodesPrefix
    /\ uuid_parse(SubSeq(p, 7, 42)) = 0

\* C1: get_config and set_config with a key outside the seven recognized keys
\* return -1 and leave every field of the record as it was, whatever the record
\* holds.
C1_UnknownKeyRejected ==
    (op \in {"get_config", "set_config"} /\ key \notin RecognizedKeys)
        => (returned /\ ret = -1 /\ ~changed)

\* C1 witness: set_config was called with an unknown key on a record that
\* already holds a value set earlier.
C1_Witness ==
    /\ op = "set_config"
    /\ key = key_deviceIdX
    /\ myConfig.deviceId = <<171>>
    /\ myConfig.preambleTime = 65535

C3_ConfigPathPrecedence ==
    (op = "node_init" /\ args.config # NULL)
        => IF args.config \in fs
           THEN returned /\ ret = 0 /\ configFile = args.config
           ELSE IF args.directory # NULL /\ (args.directory \o args.config) \in fs
           THEN returned /\ ret = 0 /\ configFile = args.directory \o args.config
           ELSE returned /\ ret = -1

\* C4: with configPath absent and uuid and directory set, a malformed uuid
\* fails before any file is looked up; a well-formed one succeeds with
\* directory + nodeSubdir + uuid exactly when that file exists.
C4_UuidValidatedFirst ==
    (op = "node_init" /\ args.config = NULL /\ args.uuid # NULL
        /\ args.directory # NULL)
        => IF uuid_parse(args.uuid) # 0
           THEN returned /\ ret = -1 /\ queried = <<>> /\ logged = "UUID not valid"
           ELSE IF (args.directory \o nodeSubdir \o args.uuid) \in fs
           THEN /\ returned
                /\ ret = 0
                /\ configFile = args.directory \o nodeSubdir \o args.uuid
           ELSE returned /\ ret = -1 /\ logged = "does not exists"

\* C5: parse_line splits on the first ':' only: "deviceId:AB" stores 0xAB and
\* succeeds; "deviceId:AB:extra" hands "AB:extra" to set_config and fails.
C5_SplitOnFirstDelimiter ==
    /\ (op = "parse_line" /\ line = l_deviceId_AB)
        => (returned /\ ret = 0 /\ myConfig.deviceId = <<171>>)
    /\ (op = "parse_line" /\ line = l_deviceId_AB_extra)
        => (/\ setCalled
            /\ key = strDeviceId
            /\ val = v_AB_extra
            /\ returned
            /\ ret = -1)

\* C6: a line without ':' makes parse_line return -1 without handing an absent
\* value to set_config, and leaves every field as it was.
C6_NoDelimiterRejected ==
    (op = "parse_line" /\ NoDelim(line))
        => (returned /\ ret = -1 /\ ~(setCalled /\ val = NULL) /\ ~changed)

\* C7: node_init ends as "not enough parameters" exactly when configPath is
\* absent and uuid and directory are not both set, and then it returns -1
\* without a single file lookup.
C7_InsufficientArguments ==
    op = "node_init"
        => /\ (logged = "not enough parameters")
                <=> (args.config = NULL
                        /\ ~(args.uuid # NULL /\ args.directory # NULL))
           /\ (logged = "not enough parameters")
                => (returned /\ ret = -1 /\ queried = <<>>)

\* C7 witness: only uuid was given, every file exists, and node_init failed
\* without looking any of them up.
C7_Witness ==
    /\ op = "node_init"
    /\ args = [config |-> NULL, uuid |-> goodUuid, directory |-> NULL]
    /\ fs = FileUniverse
    /\ ret = -1
    /\ queried = <<>>

\* C8: set_config on a recognized key with a value that is no valid encoding of
\* the field returns failure and leaves the field as it was.
C8_InvalidEncodingSurfaced ==
    (op = "set_config" /\ key \in RecognizedKeys /\ InvalidEncoding(key, val))
        => (returned /\ ret = -1 /\ ~changed)

\* C9: get_uuid returns 0 with "Nodes/" + a fresh canonical UUID when argc # 2;
\* with argc = 2 it returns 1 with "Nodes/" + the argument when that is a UUID
\* and -1 when it is not; it never returns or formats an unassigned variable.
C9_UuidDefined ==
    op = "get_uuid"
        => /\ ~uninitUsed
           /\ argc # 2 => (ret = 0 /\ IsNodesPath(configFile))
           /\ argc = 2 =>
                IF uuid_parse(argv1) = 0
                THEN ret = 1 /\ configFile = NodesPrefix \o argv1
                ELSE ret = -1

\* C10: node_init never leaves more than the 100 bytes of configFile written,
\* terminator included, whatever the lengths of its arguments.
C10_ConfigFileBounded ==
    op = "node_init" => written <= ConfigFileSize
====
